---- MODULE Spec2Model ----
(***************************************************************************)
(* Model of the post-receive notification hook (post-receive-email.py).    *)
(*                                                                         *)
(* One behaviour is one invocation of main(): the reference transitions    *)
(* on standard input are classified by make_change(), entered in           *)
(* all_changes, and then each change is prepared, its mails are sent and   *)
(* it is entered in processed_changes.                                     *)
(*                                                                         *)
(* The repository is a commit graph (parents), the branch tips after the   *)
(* push (heads) and two non-commit objects (an annotated tag and a blob).  *)
(* Commit ids are 1..MaxCommit; a commit's parents have smaller ids, and   *)
(* the id doubles as the commit date, so that rev-list's reverse           *)
(* chronological output is the descending order of ids.                    *)
(***************************************************************************)
EXTENDS Integers, Sequences, FiniteSets, TLC

\* ------------------------------------------------------------------------
\* Bounds
\* ------------------------------------------------------------------------
MaxCommit == 3
MaxBatch == 2

\* ------------------------------------------------------------------------
\* Program constants
\* ------------------------------------------------------------------------
CREATE == 0
UPDATE == 1
DELETE == 2
INVALID_TAG == 3

\* The all-zero revision of a hook input line, and Python's None.
ZeroRev == 0
None == -1

\* ------------------------------------------------------------------------
\* Objects of the repository
\* ------------------------------------------------------------------------
Commits == 1..MaxCommit
TagObj == MaxCommit + 1
BlobObj == MaxCommit + 2
Objects == Commits \cup {TagObj, BlobObj}

\* The parent lists a commit k may have: none (a root), one, or two (a merge,
\* whose first parent is the newer of the two).
ParentChoices(k) ==
    {<<>>} \cup {<<j>> : j \in 1..(k - 1)}
           \cup {p \in (1..(k - 1)) \X (1..(k - 1)) : p[1] > p[2]}

\* The commit graphs over the commits 1..n, as commit id -> parent list.
RECURSIVE GraphsUpTo(_)
GraphsUpTo(n) ==
    IF n = 0 THEN {<<>>}
    ELSE {Append(g, p) : g \in GraphsUpTo(n - 1), p \in ParentChoices(n)}

Graphs == GraphsUpTo(MaxCommit)

\* A linear history 1 <- 2 <- ... <- MaxCommit.
ChainGraph == [k \in Commits |-> IF k = 1 THEN <<>> ELSE <<k - 1>>]

\* ------------------------------------------------------------------------
\* Reference names, as their "/"-separated components
\* ------------------------------------------------------------------------
ShortNames == <<"b1", "b2", "b3", "b4", "b5">>
BranchRef(i) == <<"refs", "heads", ShortNames[i]>>
TagRef(i) == <<"refs", "tags", ShortNames[i]>>
StableRef == <<"refs", "heads", "stable">>

\* The branch names of the repository, in the sorted order in which
\* "git rev-parse --symbolic-full-name --branches" prints them.
AllHeadRefs == [i \in 1..(MaxBatch + 1) |-> IF i <= MaxBatch THEN BranchRef(i) ELSE StableRef]

HeadRefSet == {AllHeadRefs[i] : i \in DOMAIN AllHeadRefs}

\* Reference names given to the classifier alone.
ClassifyRefs ==
    { BranchRef(1), TagRef(1),
      <<"refs", "remotes", "origin", "foo">>,
      <<"refs", "notes", "commits">>,
      <<"refs", "heads">>,
      <<"HEAD">> }

\* ------------------------------------------------------------------------
\* Input lines "old new refname" of the hook
\* ------------------------------------------------------------------------
\* A line of three items, and a line of some other number of items, of
\* which no item is ever read.
Line(o, n, r) == [old |-> o, new |-> n, refname |-> r, items |-> 3]

MalformedLine(n) == [old |-> ZeroRev, new |-> ZeroRev, refname |-> <<>>, items |-> n]

MalformedLines == {MalformedLine(n) : n \in {0, 2, 4}}

BranchLines(i) ==
    {Line(o, n, BranchRef(i)) : o \in Commits \cup {ZeroRev}, n \in Commits \cup {ZeroRev}}

TagLines(i) == {Line(ZeroRev, TagObj, TagRef(i))}

\* Batches of a push: the i-th line updates the i-th branch or the i-th tag,
\* so the reference names of a batch are pairwise distinct.
RECURSIVE Batches(_)
Batches(n) ==
    IF n = 0 THEN {<<>>}
    ELSE LET shorter == Batches(n - 1)
         IN  shorter \cup
             {Append(b, l) : b \in {x \in shorter : Len(x) = n - 1},
                             l \in BranchLines(n) \cup TagLines(n)}

\* Batches that end at a malformed line, after well-formed lines.
MalformedBatches == {Append(b, m) : b \in Batches(MaxBatch - 1), m \in MalformedLines}

\* Single transitions over every namespace and every object kind.
ClassifyBatches ==
    {<<Line(o, n, r)>> : o \in Objects \cup {ZeroRev}, n \in Objects \cup {ZeroRev},
                         r \in ClassifyRefs}

\* ------------------------------------------------------------------------
\* State
\* ------------------------------------------------------------------------
VARIABLES
    parents,            \* the commit graph: commit id -> sequence of parent ids
    heads,              \* branch name -> tip after the push, or None
    stdin,              \* the lines of standard input
    changes,            \* main(): the list of change objects
    all_changes,        \* refname -> index in changes
    processed_changes,  \* refname -> index in changes
    mails,              \* the notifications handed to Mailer.send, in order
    config,             \* the hooks.* keys that are set in the git configuration
    pc,                 \* position of main()
    cur                 \* index of the line or change the current loop is at

vars == <<parents, heads, stdin, changes, all_changes, processed_changes, mails, config, pc, cur>>

\* ------------------------------------------------------------------------
\* The repository query service (git.py): ancestry and object kinds
\* ------------------------------------------------------------------------
\* The commit an annotated tag object points at.
TagTarget == 1

RECURSIVE Reach(_)
Reach(c) == {c} \cup UNION {Reach(parents[c][i]) : i \in DOMAIN parents[c]}

\* Commits reachable from an object: tags are peeled, blobs reach nothing.
ReachObj(o) ==
    IF o \in Commits THEN Reach(o)
    ELSE IF o = TagObj THEN Reach(TagTarget)
    ELSE {}

SetMax(S) == CHOOSE m \in S : \A x \in S : x <= m

RECURSIVE SortDesc(_)
SortDesc(S) == IF S = {} THEN <<>> ELSE <<SetMax(S)>> \o SortDesc(S \ {SetMax(S)})

Reverse(q) == [i \in 1..Len(q) |-> q[Len(q) + 1 - i]]

SeqToSet(q) == {q[i] : i \in DOMAIN q}

\* An argument of rev-list: a revision, or "^" + revision.
Pos(rev) == [neg |-> FALSE, rev |-> rev]
Neg(rev) == [neg |-> TRUE, rev |-> rev]

\* git rev-list: the commits reachable from the positive arguments and from
\* no negative argument, newest first.
rev_list(args) ==
    LET inc == UNION {ReachObj(args[i].rev) : i \in {j \in DOMAIN args : ~args[j].neg}}
        exc == UNION {ReachObj(args[i].rev) : i \in {j \in DOMAIN args : args[j].neg}}
    IN  SortDesc(inc \ exc)

\* rev_list_commits("a..b")
rev_list_commits(a, b) == rev_list(<<Pos(b), Neg(a)>>)

\* git rev-parse of a full object id prints the id.
rev_parse(rev) == rev

\* git rev-parse "<commit>^" fails for a commit without parent.
ParentResolves(c) == Len(parents[c]) > 0
FirstParent(c) == parents[c][1]

commit_is_merge(c) == Len(parents[c]) > 1

\* git cat-file -t
cat_file_t(o) ==
    IF o \in Commits THEN "commit"
    ELSE IF o = TagObj THEN "tag"
    ELSE "blob"

\* git rev-parse --symbolic-full-name --branches
BranchList == SelectSeq(AllHeadRefs, LAMBDA b : heads[b] # None)

\* ------------------------------------------------------------------------
\* Change objects
\* ------------------------------------------------------------------------
MiscClasses == {"MiscCreation", "MiscDeletion", "MiscUpdate"}
BranchChangeClasses == {"BranchCreation", "BranchUpdate"}
AnnotatedTagClasses == {"AnnotatedTagCreation", "AnnotatedTagDeletion", "AnnotatedTagUpdate"}

\* RefChange.__init__ (and MiscChange.__init__, which adds the message).
\* The attributes that prepare() sets are held at empty values until then.
RefChange(cls, refname, oldrev, newrev, message) ==
    [ cls |-> cls,
      refname |-> refname,
      oldrev |-> oldrev,
      newrev |-> newrev,
      change_type |->
          IF oldrev = None /\ newrev # None THEN CREATE
          ELSE IF oldrev # None /\ newrev = None THEN DELETE
          ELSE IF oldrev # None /\ newrev # None THEN UPDATE
          ELSE INVALID_TAG,
      message |-> message,
      prepared |-> FALSE,
      detailed_commits |-> {},
      added_commits |-> <<>>,
      removed_commits |-> <<>>,
      needs_cover_email |-> FALSE ]

\* Number of arguments the constructor of a class takes besides self.
InitArity(cls) == IF cls \in MiscClasses THEN 10 ELSE 9

\* InNamespace for the pattern '^refs/<namespace>.*$', without the slash
\* that ends the namespace.
InNamespace_noSlash(refname, namespace) ==
    /\ Len(refname) >= 2
    /\ refname[1] = "refs"
    /\ refname[2] = namespace

\* InNamespace for the pattern '^refs/<namespace>/[^/]*$', which stops at
\* the next slash.
InNamespace_oneLevel(refname, namespace) ==
    /\ Len(refname) = 3
    /\ refname[1] = "refs"
    /\ refname[2] = namespace

\* re.match(r'^refs/<namespace>/.*$', refname) on the components of refname
InNamespace(refname, namespace) ==
    /\ Len(refname) >= 3
    /\ refname[1] = "refs"
    /\ refname[2] = namespace

\* make_change(): the constructor call it makes, as the class, the number of
\* arguments passed and the object those arguments build.
make_change(oldarg, newarg, refname) ==
    LET oldrev == IF rev_parse(oldarg) = ZeroRev THEN None ELSE rev_parse(oldarg)
        newrev == IF rev_parse(newarg) = ZeroRev THEN None ELSE rev_parse(newarg)
        valid == oldrev # None \/ newrev # None
        change_type ==
            IF oldrev = None /\ newrev # None THEN CREATE
            ELSE IF oldrev # None /\ newrev = None THEN DELETE
            ELSE UPDATE
        target == IF change_type = DELETE THEN oldrev ELSE newrev
        object_type == cat_file_t(target)
        make(cls) == [cls |-> cls, nargs |-> 9,
                      obj |-> RefChange(cls, refname, oldrev, newrev, "")]
        make_misc_change(message) ==
            LET cls == IF change_type = CREATE THEN "MiscCreation"
                       ELSE IF change_type = DELETE THEN "MiscDeletion"
                       ELSE "MiscUpdate"
            IN  [cls |-> cls, nargs |-> 10,
                 obj |-> RefChange(cls, refname, oldrev, newrev, message)]
    IN  IF ~valid
        THEN [cls |-> "InvalidRefDeletion", nargs |-> 3,
              obj |-> RefChange("InvalidRefDeletion", refname, oldrev, newrev, "")]
        ELSE IF InNamespace(refname, "tags")
        THEN IF object_type = "commit"
             THEN IF change_type = CREATE THEN make("LightweightTagCreation")
                  ELSE IF change_type = DELETE THEN make("LightweightTagDeletion")
                  ELSE make("LightweightTagUpdate")
             ELSE IF object_type = "tag"
             THEN IF change_type = CREATE THEN make("AnnotatedTagCreation")
                  ELSE IF change_type = DELETE THEN make("AnnotatedTagDeletion")
                  ELSE make("AnnotatedTagUpdate")
             ELSE make_misc_change("is not a commit or tag object")
        ELSE IF InNamespace(refname, "heads")
        THEN IF object_type = "commit"
             THEN IF change_type = CREATE THEN make("BranchCreation")
                  ELSE IF change_type = DELETE THEN make("BranchDeletion")
                  ELSE make("BranchUpdate")
             ELSE make_misc_change("is not a commit object")
        ELSE IF InNamespace(refname, "remotes")
        THEN make_misc_change("is a tracking branch and doesn't belong on the server")
        ELSE make_misc_change("is not in refs/heads/ or refs/tags/")

\* ------------------------------------------------------------------------
\* BranchChange.prepare()
\* ------------------------------------------------------------------------
\* BranchExclusion without the exclusion of the branch's own old revision.
BranchExclusion_keepsOld(self, branch) ==
    IF branch = self.refname
    THEN <<>>
    ELSE IF branch \in DOMAIN all_changes /\ branch \notin DOMAIN processed_changes
    THEN IF changes[all_changes[branch]].change_type # CREATE
         THEN <<Neg(changes[all_changes[branch]].oldrev)>>
         ELSE <<>>
    ELSE <<Neg(heads[branch])>>

\* BranchExclusion without the test of processed_changes: a branch of the
\* batch is excluded at its old revision even after it was processed.
BranchExclusion_noProcessed(self, branch) ==
    IF branch = self.refname
    THEN IF self.change_type # CREATE THEN <<Neg(self.oldrev)>> ELSE <<>>
    ELSE IF branch \in DOMAIN all_changes
    THEN IF changes[all_changes[branch]].change_type # CREATE
         THEN <<Neg(changes[all_changes[branch]].oldrev)>>
         ELSE <<>>
    ELSE <<Neg(heads[branch])>>

\* The body of the loop over the branches: what one branch appends to
\* detailed_commit_args.
BranchExclusion(self, branch) ==
    IF branch = self.refname
    THEN IF self.change_type # CREATE THEN <<Neg(self.oldrev)>> ELSE <<>>
    ELSE IF branch \in DOMAIN all_changes /\ branch \notin DOMAIN processed_changes
    THEN IF changes[all_changes[branch]].change_type # CREATE
         THEN <<Neg(changes[all_changes[branch]].oldrev)>>
         ELSE <<>>
    ELSE <<Neg(heads[branch])>>

RECURSIVE ExclusionArgs(_, _, _)
ExclusionArgs(self, branches, n) ==
    IF n = 0 THEN <<>>
    ELSE ExclusionArgs(self, branches, n - 1) \o BranchExclusion(self, branches[n])

detailed_commit_args(self) ==
    <<Pos(self.newrev)>> \o ExclusionArgs(self, BranchList, Len(BranchList))

\* CreationAddedCommits that answers a failed parent lookup by listing the
\* whole history of the new revision.
CreationAddedCommits_walksAll(self, detailed) ==
    IF Len(detailed) > 0
    THEN IF ~ParentResolves(detailed[Len(detailed)])
         THEN Reverse(rev_list(<<Pos(self.newrev)>>))
         ELSE Reverse(rev_list_commits(FirstParent(detailed[Len(detailed)]), self.newrev))
    ELSE <<>>

\* added_commits of a branch creation, from the list of detailed commits
CreationAddedCommits(self, detailed) ==
    IF Len(detailed) > 0
    THEN IF ~ParentResolves(detailed[Len(detailed)])
         THEN <<>>
         ELSE Reverse(rev_list_commits(FirstParent(detailed[Len(detailed)]), self.newrev))
    ELSE <<>>

have_merge_commits(added) == \E i \in DOMAIN added : commit_is_merge(added[i])

\* needs_cover_email without the non-fast-forward condition.
needs_cover_email_noRemoved(self, detailed, added, removed) ==
    \/ self.change_type = CREATE
    \/ have_merge_commits(added)
    \/ Cardinality(detailed) < Len(added)

\* needs_cover_email with <= for < in the comparison of the lengths.
needs_cover_email_le(self, detailed, added, removed) ==
    \/ self.change_type = CREATE
    \/ Len(removed) > 0
    \/ have_merge_commits(added)
    \/ Cardinality(detailed) <= Len(added)

needs_cover_email(self, detailed, added, removed) ==
    \/ self.change_type = CREATE
    \/ Len(removed) > 0
    \/ have_merge_commits(added)
    \/ Cardinality(detailed) < Len(added)

BranchChange_prepare(self) ==
    LET detailed_commits == rev_list(detailed_commit_args(self))
        detailed == SeqToSet(detailed_commits)
        added == IF self.change_type = CREATE
                 THEN CreationAddedCommits(self, detailed_commits)
                 ELSE Reverse(rev_list_commits(self.oldrev, self.newrev))
        removed == IF self.change_type = CREATE
                   THEN <<>>
                   ELSE Reverse(rev_list_commits(self.newrev, self.oldrev))
    IN  [self EXCEPT !.prepared = TRUE,
                     !.detailed_commits = detailed,
                     !.added_commits = added,
                     !.removed_commits = removed,
                     !.needs_cover_email = needs_cover_email(self, detailed, added, removed)]

\* prepare() of the class of the change: only branch creations and updates
\* compute an attribution.
prepare(self) ==
    IF self.cls \in BranchChangeClasses
    THEN BranchChange_prepare(self)
    ELSE [self EXCEPT !.prepared = TRUE]

\* ------------------------------------------------------------------------
\* Notifications
\* ------------------------------------------------------------------------
\* get_needs_main_email()
get_needs_main_email(self) ==
    IF self.cls \in BranchChangeClasses THEN self.needs_cover_email ELSE TRUE

\* BranchUpdate.get_subject() reads added_commits[-1] when nothing was removed.
SubjectRaises(self) ==
    /\ self.cls = "BranchUpdate"
    /\ Len(self.removed_commits) = 0
    /\ Len(self.added_commits) = 0

\* The commits the body of the main mail lists as added: the commit summary
\* of a branch change, or the tip a created branch points to.
MainSummary(self) ==
    IF self.cls \in BranchChangeClasses
    THEN IF self.cls = "BranchCreation" /\ Len(self.added_commits) = 0
         THEN <<self.newrev>>
         ELSE self.added_commits
    ELSE <<>>

MainMail(idx, self) ==
    [change |-> idx, kind |-> "main", commit |-> None, summary |-> MainSummary(self)]

CommitMail(idx, c) ==
    [change |-> idx, kind |-> "commit", commit |-> c, summary |-> <<>>]

\* send_extra_emails(): one mail per added commit that is a detailed commit
extra_emails(idx, self) ==
    IF self.cls \in BranchChangeClasses
    THEN LET sel == SelectSeq(self.added_commits, LAMBDA c : c \in self.detailed_commits)
         IN  [i \in 1..Len(sel) |-> CommitMail(idx, sel[i])]
    ELSE <<>>

\* ------------------------------------------------------------------------
\* Configuration
\* ------------------------------------------------------------------------
\* The keys main() reads, in the order of its get_config() calls.
ConfigOrder ==
    << "hooks.mailinglist", "hooks.smtp-host", "hooks.smtp-port",
       "hooks.smtp-sender", "hooks.smtp-sender-password" >>

ConfigKeys == {ConfigOrder[i] : i \in DOMAIN ConfigOrder}

\* The keys read with skip=True
SkippableKeys == {"hooks.smtp-port"}

\* get_config_dies that does not look at skip.
get_config_dies_noSkip(hook, keys) == hook \notin keys

\* get_config(hook, skip) calls die() when the key is unset and skip is false.
get_config_dies(hook, keys) == hook \notin keys /\ hook \notin SkippableKeys

\* The batches the configuration is varied with.
ConfigBatches == {<<Line(ZeroRev, 1, BranchRef(1))>>, <<Line(1, 2, BranchRef(1))>>}

\* ------------------------------------------------------------------------
\* Initial states: a repository after a push, and the lines of the push
\* ------------------------------------------------------------------------
EmptyMap == [r \in {} |-> 0]

\* The branch tips after the push: a branch named by a line is at the line's
\* new revision; the branch "stable" is not part of the push.
HeadsAfter(batch, stable) ==
    [b \in HeadRefSet |->
        IF \E i \in DOMAIN batch : batch[i].refname = b
        THEN LET i == CHOOSE j \in DOMAIN batch : batch[j].refname = b
             IN  IF batch[i].new = ZeroRev THEN None ELSE batch[i].new
        ELSE IF b = StableRef THEN stable
        ELSE None]

InitWith(graph, batch, stable, keys) ==
    /\ parents = graph
    /\ config = keys
    /\ heads = HeadsAfter(batch, stable)
    /\ stdin = batch
    /\ changes = <<>>
    /\ all_changes = EmptyMap
    /\ processed_changes = EmptyMap
    /\ mails = <<>>
    /\ pc = "config"
    /\ cur = 1

Init ==
    \/ \E graph \in Graphs, batch \in Batches(MaxBatch), stable \in Commits \cup {None} :
           InitWith(graph, batch, stable, ConfigKeys)
    \/ \E batch \in ClassifyBatches : InitWith(ChainGraph, batch, None, ConfigKeys)
    \/ \E batch \in MalformedBatches : InitWith(ChainGraph, batch, None, ConfigKeys)
    \/ \E batch \in ConfigBatches, keys \in SUBSET ConfigKeys :
           InitWith(ChainGraph, batch, None, keys)

\* ------------------------------------------------------------------------
\* main()
\* ------------------------------------------------------------------------
\* The five get_config() calls: die() at the first required key that is unset
LoadConfig ==
    /\ pc = "config"
    /\ IF \E i \in DOMAIN ConfigOrder : get_config_dies(ConfigOrder[i], config)
       THEN pc' = "fatal"
       ELSE pc' = "read"
    /\ UNCHANGED <<config, parents, heads, stdin, changes, all_changes, processed_changes, mails, cur>>

\* Standard input is empty: every loop of main() is empty.
NoInput ==
    /\ pc = "read"
    /\ Len(stdin) = 0
    /\ pc' = "done"
    /\ UNCHANGED <<config, parents, heads, stdin, changes, all_changes, processed_changes, mails, cur>>

\* line_is_malformed for the test len(items) < 3
line_is_malformed_tooFew(line) == line.items < 3

\* len(items) != 3
line_is_malformed(line) == line.items # 3

\* One iteration of "for line in sys.stdin": die() on a line that has not
\* three items, else make_change() and append.  A constructor called with
\* the wrong number of arguments raises TypeError.
ReadLine ==
    /\ pc = "read"
    /\ cur <= Len(stdin)
    /\ IF line_is_malformed(stdin[cur])
       THEN /\ pc' = "fatal"
            /\ UNCHANGED <<changes, cur>>
       ELSE LET made == make_change(stdin[cur].old, stdin[cur].new, stdin[cur].refname)
            IN  IF made.nargs # InitArity(made.cls)
                THEN /\ pc' = "crashed"
                     /\ UNCHANGED <<changes, cur>>
                ELSE /\ changes' = Append(changes, made.obj)
                     /\ IF cur = Len(stdin)
                        THEN pc' = "register" /\ cur' = 1
                        ELSE pc' = "read" /\ cur' = cur + 1
    /\ UNCHANGED <<config, parents, heads, stdin, all_changes, processed_changes, mails>>

\* Register with the two loops of main() merged: the first change is prepared
\* as soon as it is entered in all_changes.
Register_merged ==
    /\ pc = "register"
    /\ all_changes' = (changes[cur].refname :> cur) @@ all_changes
    /\ pc' = "prepare" /\ cur' = 1
    /\ UNCHANGED <<config, parents, heads, stdin, changes, processed_changes, mails>>

\* One iteration of "for change in changes: all_changes[change.refname] = change"
Register ==
    /\ pc = "register"
    /\ all_changes' = (changes[cur].refname :> cur) @@ all_changes
    /\ IF cur = Len(changes)
       THEN pc' = "prepare" /\ cur' = 1
       ELSE pc' = "register" /\ cur' = cur + 1
    /\ UNCHANGED <<config, parents, heads, stdin, changes, processed_changes, mails>>

\* change.prepare()
Prepare ==
    /\ pc = "prepare"
    /\ changes' = [changes EXCEPT ![cur] = prepare(changes[cur])]
    /\ pc' = "send_main"
    /\ UNCHANGED <<config, parents, heads, stdin, all_changes, processed_changes, mails, cur>>

\* change.send_main_email()
SendMainEmail ==
    /\ pc = "send_main"
    /\ IF ~get_needs_main_email(changes[cur])
       THEN pc' = "send_extra" /\ UNCHANGED mails
       ELSE IF SubjectRaises(changes[cur])
       THEN pc' = "crashed" /\ UNCHANGED mails
       ELSE pc' = "send_extra" /\ mails' = Append(mails, MainMail(cur, changes[cur]))
    /\ UNCHANGED <<config, parents, heads, stdin, changes, all_changes, processed_changes, cur>>

\* change.send_extra_emails()
SendExtraEmails ==
    /\ pc = "send_extra"
    /\ mails' = mails \o extra_emails(cur, changes[cur])
    /\ pc' = "mark"
    /\ UNCHANGED <<config, parents, heads, stdin, changes, all_changes, processed_changes, cur>>

\* processed_changes[change.refname] = change, and the next iteration
MarkProcessed ==
    /\ pc = "mark"
    /\ processed_changes' = (changes[cur].refname :> cur) @@ processed_changes
    /\ IF cur = Len(changes)
       THEN pc' = "done" /\ UNCHANGED cur
       ELSE pc' = "prepare" /\ cur' = cur + 1
    /\ UNCHANGED <<config, parents, heads, stdin, changes, all_changes, mails>>

Next ==
    \/ LoadConfig
    \/ NoInput
    \/ ReadLine
    \/ Register
    \/ Prepare
    \/ SendMainEmail
    \/ SendExtraEmails
    \/ MarkProcessed

Spec == Init /\ [][Next]_vars

\* ------------------------------------------------------------------------
\* Failing repository queries and mail dispatch
\* ------------------------------------------------------------------------
\* propagate for a loop that catches the exception and goes on to
\* processed_changes[change.refname] = change.
propagate_skips(sent) ==
    /\ pc' = "mark"
    /\ mails' = mails \o sent
    /\ UNCHANGED <<config, parents, heads, stdin, changes, all_changes, processed_changes, cur>>

\* An exception raised in prepare() or send_emails() after the mails in
\* sent went out: nothing in main() catches it, the interpreter exits.
propagate(sent) ==
    /\ pc' = "failed"
    /\ mails' = mails \o sent
    /\ UNCHANGED <<config, parents, heads, stdin, changes, all_changes, processed_changes, cur>>

\* A git query of BranchChange.prepare() exits non-zero.
PrepareFails ==
    /\ pc = "prepare"
    /\ changes[cur].cls \in BranchChangeClasses
    /\ propagate(<<>>)

\* send_main_email(): a query of get_subject()/get_body() fails or
\* Mailer.send() raises before sendmail() (mail not sent), or after it, in
\* rset()/quit() (mail sent).
SendMainFails ==
    /\ pc = "send_main"
    /\ get_needs_main_email(changes[cur])
    /\ ~SubjectRaises(changes[cur])
    /\ \E sent \in {<<>>, <<MainMail(cur, changes[cur])>>} : propagate(sent)

\* send_extra_emails(): git.show() or Mailer.send() fails for one of the
\* commit mails, after k of them went out.
SendExtraFails ==
    /\ pc = "send_extra"
    /\ extra_emails(cur, changes[cur]) # <<>>
    /\ \E k \in 0..Len(extra_emails(cur, changes[cur])) :
           propagate(SubSeq(extra_emails(cur, changes[cur]), 1, k))

NextFail ==
    \/ LoadConfig
    \/ NoInput
    \/ ReadLine
    \/ Register
    \/ Prepare
    \/ SendMainEmail
    \/ SendExtraEmails
    \/ MarkProcessed
    \/ PrepareFails
    \/ SendMainFails
    \/ SendExtraFails

SpecFail == Init /\ [][NextFail]_vars

\* ------------------------------------------------------------------------
\* Properties
\* ------------------------------------------------------------------------
MailsOf(i) == SelectSeq(mails, LAMBDA m : m.change = i)

CommitMailsOf(i) == SelectSeq(mails, LAMBDA m : m.change = i /\ m.kind = "commit")

MainMailsOf(i) == SelectSeq(mails, LAMBDA m : m.change = i /\ m.kind = "main")

\* The mails send_emails() of change i hands to the mailer.
EmittedMails(i) ==
    (IF get_needs_main_email(changes[i]) THEN <<MainMail(i, changes[i])>> ELSE <<>>)
        \o extra_emails(i, changes[i])

InPrepareLoop == pc \in {"prepare", "send_main", "send_extra", "mark"}

\* C1: every transition is classified and entered in all_changes before the
\* first prepare(); when prepare() of a change starts, every earlier change
\* has been prepared, has sent its mails and is in processed_changes; a
\* refname in processed_changes has had its notifications emitted; and
\* processed_changes is a subset of all_changes.
C1_BatchOrdering ==
    /\ (InPrepareLoop \/ \E i \in DOMAIN changes : changes[i].prepared) =>
           /\ Len(changes) = Len(stdin)
           /\ \A k \in DOMAIN stdin :
                  /\ stdin[k].refname \in DOMAIN all_changes
                  /\ all_changes[stdin[k].refname] = k
    /\ InPrepareLoop =>
           /\ \A i \in 1..(cur - 1) :
                  /\ changes[i].prepared
                  /\ changes[i].refname \in DOMAIN processed_changes
                  /\ processed_changes[changes[i].refname] = i
           /\ \A j \in (cur + 1)..Len(changes) :
                  /\ ~changes[j].prepared
                  /\ MailsOf(j) = <<>>
    /\ \A r \in DOMAIN processed_changes :
           /\ changes[processed_changes[r]].prepared
           /\ MailsOf(processed_changes[r]) = EmittedMails(processed_changes[r])
    /\ DOMAIN processed_changes \subseteq DOMAIN all_changes

\* The second change of a batch is about to be prepared after the first one
\* sent mail and was marked processed.
C1_Witness ==
    /\ pc = "prepare"
    /\ cur = 2
    /\ Len(changes) = 2
    /\ MailsOf(1) # <<>>
    /\ changes[1].refname \in DOMAIN processed_changes

\* The branches that exist after the push.
ExistingBranches == {b \in HeadRefSet : heads[b] # None}

\* The old revision the input line of the batch gives for a refname.
OldOfLine(r) == stdin[CHOOSE k \in DOMAIN stdin : stdin[k].refname = r].old

\* What branch b takes out of the detailed set of a change, by the three
\* cases of the attribution rule.
ExcludedBy(self, b) ==
    IF b = self.refname
    THEN IF OldOfLine(b) = ZeroRev THEN {} ELSE ReachObj(OldOfLine(b))
    ELSE IF b \in DOMAIN all_changes /\ b \notin DOMAIN processed_changes
    THEN IF OldOfLine(b) = ZeroRev THEN {} ELSE ReachObj(OldOfLine(b))
    ELSE ReachObj(heads[b])

IsBranchChange(i) == changes[i].cls \in BranchChangeClasses

\* C2: right after prepare() of a branch creation or update, its detailed set
\* is what is reachable from the new revision minus, for every existing
\* branch, what the rule excludes for that branch (own old revision, old
\* revision of an unprocessed sibling, tip of any other branch).
C2_DetailedSet ==
    (pc = "send_main" /\ IsBranchChange(cur)) =>
        changes[cur].detailed_commits =
            Reach(changes[cur].newrev)
                \ UNION {ExcludedBy(changes[cur], b) : b \in ExistingBranches}

\* A prepared branch update with an unprocessed sibling update and an
\* untouched branch, whose detailed set is smaller than old..new.
C2_Witness ==
    /\ pc = "send_main"
    /\ cur = 1
    /\ Len(changes) = 2
    /\ changes[1].cls = "BranchUpdate"
    /\ changes[2].cls = "BranchUpdate"
    /\ heads[StableRef] # None
    /\ changes[1].detailed_commits # {}
    /\ changes[1].detailed_commits # Reach(changes[1].newrev) \ ReachObj(changes[1].oldrev)

\* C3: no commit is in the detailed set of two changes of a batch, and no
\* commit gets two per-commit notifications in one invocation.
C3_NoDuplicateDetail ==
    /\ \A i, j \in DOMAIN changes :
           (i # j /\ IsBranchChange(i) /\ IsBranchChange(j)) =>
               changes[i].detailed_commits \cap changes[j].detailed_commits = {}
    /\ \A m, n \in DOMAIN mails :
           (m # n /\ mails[m].kind = "commit" /\ mails[n].kind = "commit") =>
               mails[m].commit # mails[n].commit

\* Two branch changes of one batch share a new commit and both were
\* prepared; each sent per-commit notifications.
C3_Witness ==
    /\ pc = "done"
    /\ Len(changes) = 2
    /\ IsBranchChange(1) /\ IsBranchChange(2)
    /\ Reach(changes[1].newrev) \cap Reach(changes[2].newrev) \cap changes[1].detailed_commits # {}
    /\ Len(CommitMailsOf(1)) > 0
    /\ Len(CommitMailsOf(2)) > 0

\* The commits that got a per-commit notification for change i.
CommitsMailedFor(i) == {CommitMailsOf(i)[k].commit : k \in DOMAIN CommitMailsOf(i)}

\* Change i has been prepared and its send_emails() has returned.
Emitted(i) ==
    \/ pc = "mark" /\ cur = i
    \/ changes[i].refname \in DOMAIN processed_changes /\ processed_changes[changes[i].refname] = i

\* The oldest detailed commit of a branch creation has no parent.
OldestDetailedIsRoot(i) ==
    /\ changes[i].detailed_commits # {}
    /\ \A c \in changes[i].detailed_commits :
           (\A d \in changes[i].detailed_commits : c <= d) => ~ParentResolves(c)

\* C4: for every branch creation or update whose mails were sent, the commits
\* that got a per-commit notification are exactly the detailed set, each once.
C4_PerCommitIsDetailed ==
    \A i \in DOMAIN changes :
        (IsBranchChange(i) /\ Emitted(i)) =>
            /\ CommitsMailedFor(i) = changes[i].detailed_commits
            /\ Len(CommitMailsOf(i)) = Cardinality(changes[i].detailed_commits)

\* The commits some branch reached before the push: the old revisions of the
\* branch lines of the batch and the tips of the branches outside the batch.
ReachedBeforePush ==
    UNION ( {ReachObj(stdin[k].old) :
                k \in {j \in DOMAIN stdin : InNamespace(stdin[j].refname, "heads")
                                            /\ stdin[j].old # ZeroRev}}
            \cup {ReachObj(heads[b]) :
                b \in {x \in ExistingBranches : \A k \in DOMAIN stdin : stdin[k].refname # x}} )

\* The commits the push brought to the branches it created or updated.
NewCommits ==
    UNION {Reach(changes[i].newrev) : i \in {j \in DOMAIN changes : IsBranchChange(j)}}
        \ ReachedBeforePush

Surfaced(c) ==
    \E m \in DOMAIN mails :
        \/ mails[m].kind = "commit" /\ mails[m].commit = c
        \/ mails[m].kind = "main" /\ c \in SeqToSet(mails[m].summary)

\* C5: when the batch has completed, every new commit of a created or updated
\* branch is listed in a cover notification or has a per-commit notification.
C5_NewCommitsSurface ==
    pc = "done" => \A c \in NewCommits : Surfaced(c)

\* C6: after prepare() of a branch change, needs_cover is true exactly when
\* the change is a creation, or removed is non-empty, or an added commit is a
\* merge, or the detailed set is a strict subset of the added commits.
C6_NeedsCover ==
    \A i \in DOMAIN changes :
        (IsBranchChange(i) /\ changes[i].prepared) =>
            LET self == changes[i]
                addedIds == SeqToSet(self.added_commits)
            IN  /\ self.needs_cover_email <=>
                       \/ stdin[i].old = ZeroRev
                       \/ self.removed_commits # <<>>
                       \/ \E c \in addedIds : Len(parents[c]) > 1
                       \/ (self.detailed_commits \subseteq addedIds
                             /\ self.detailed_commits # addedIds)
                /\ (self.cls = "BranchUpdate" /\ self.removed_commits # <<>>) =>
                       self.needs_cover_email

\* A prepared non-fast-forward update, and a prepared fast-forward update
\* that needs a cover only because part of what it adds is on another branch.
C6_Witness ==
    /\ Len(changes) = 2
    /\ changes[1].cls = "BranchUpdate" /\ changes[1].prepared
    /\ changes[1].removed_commits # <<>>
    /\ changes[2].cls = "BranchUpdate" /\ changes[2].prepared
    /\ changes[2].removed_commits = <<>>
    /\ ~have_merge_commits(changes[2].added_commits)
    /\ changes[2].needs_cover_email

\* The premise of C7 for change i, while processed_changes is what prepare()
\* of i saw: a fast-forward update none of whose added commits is reachable
\* from another branch.
PlainFastForward(i) ==
    /\ changes[i].cls = "BranchUpdate"
    /\ changes[i].oldrev \in Commits
    /\ changes[i].oldrev \in Reach(changes[i].newrev)
    /\ \A b \in ExistingBranches \ {changes[i].refname} :
           (Reach(changes[i].newrev) \ Reach(changes[i].oldrev))
               \cap ExcludedBy(changes[i], b) = {}

\* C7: for a fast-forward update that shares no added commit with another
\* branch, detailed is the set of added commits, needs_cover is false unless
\* an added commit is a merge, and without cover the change sends no main
\* mail and one per-commit mail per added commit.
C7_PlainFastForward ==
    (pc = "mark" /\ PlainFastForward(cur)) =>
        LET self == changes[cur]
        IN  /\ self.detailed_commits = SeqToSet(self.added_commits)
            /\ (~(\E k \in DOMAIN self.added_commits : Len(parents[self.added_commits[k]]) > 1))
                   => ~self.needs_cover_email
            /\ ~self.needs_cover_email =>
                   /\ MainMailsOf(cur) = <<>>
                   /\ Len(CommitMailsOf(cur)) = Len(self.added_commits)
                   /\ \A k \in DOMAIN self.added_commits :
                          CommitMailsOf(cur)[k].commit = self.added_commits[k]

\* A fast-forward update by two commits, next to another existing branch,
\* that sent its two per-commit mails and no cover.
C7_Witness ==
    /\ pc = "mark"
    /\ PlainFastForward(cur)
    /\ ExistingBranches # {changes[cur].refname}
    /\ Len(changes[cur].added_commits) = 2
    /\ ~changes[cur].needs_cover_email
    /\ Len(CommitMailsOf(cur)) = 2
    /\ MainMailsOf(cur) = <<>>

\* Scenario A: the only line creates a branch at a root commit and no other
\* branch exists.
ScenarioA ==
    /\ Len(stdin) = 1
    /\ stdin[1].old = ZeroRev
    /\ stdin[1].new \in Commits
    /\ InNamespace(stdin[1].refname, "heads")
    /\ parents[stdin[1].new] = <<>>
    /\ ExistingBranches = {stdin[1].refname}

\* C8: in scenario A the change is a branch creation with added = [C1],
\* removed = [], detailed = {C1}, needs_cover true, and the invocation sends
\* one cover notification and one per-commit notification for C1.
C8_ScenarioA ==
    (ScenarioA /\ pc = "done") =>
        /\ changes[1].cls = "BranchCreation"
        /\ changes[1].added_commits = <<stdin[1].new>>
        /\ changes[1].removed_commits = <<>>
        /\ changes[1].detailed_commits = {stdin[1].new}
        /\ changes[1].needs_cover_email
        /\ Len(MainMailsOf(1)) = 1
        /\ Len(mails) = 2
        /\ CommitsMailedFor(1) = {stdin[1].new}

\* C9: a prepared branch creation whose detailed set is empty, or whose
\* oldest detailed commit is a root commit, has added = [] and removed = [];
\* main() is not stopped by it, and when main() is done every change of the
\* batch has been prepared and has emitted its mails.
C9_ParentLookupMiss ==
    /\ \A i \in DOMAIN changes :
           (changes[i].cls = "BranchCreation" /\ changes[i].prepared
              /\ (changes[i].detailed_commits = {} \/ OldestDetailedIsRoot(i))) =>
               /\ changes[i].added_commits = <<>>
               /\ changes[i].removed_commits = <<>>
               /\ ~(pc = "crashed" /\ cur = i)
    /\ pc = "done" =>
           \A j \in DOMAIN stdin :
               /\ changes[j].prepared
               /\ MailsOf(j) = EmittedMails(j)

\* The first change created a branch from a root commit, the lookup of the
\* root's parent failed, and the second change went on to send its mails.
C9_Witness ==
    /\ pc = "done"
    /\ Len(changes) = 2
    /\ changes[1].cls = "BranchCreation"
    /\ OldestDetailedIsRoot(1)
    /\ changes[1].added_commits = <<>>
    /\ IsBranchChange(2)
    /\ MailsOf(2) # <<>>

\* The class names of the change kinds, by family and transition shape.
ClassOf ==
    [ LightweightTag |-> [create |-> "LightweightTagCreation",
                          update |-> "LightweightTagUpdate",
                          delete |-> "LightweightTagDeletion"],
      AnnotatedTag   |-> [create |-> "AnnotatedTagCreation",
                          update |-> "AnnotatedTagUpdate",
                          delete |-> "AnnotatedTagDeletion"],
      Branch         |-> [create |-> "BranchCreation",
                          update |-> "BranchUpdate",
                          delete |-> "BranchDeletion"],
      Misc           |-> [create |-> "MiscCreation",
                          update |-> "MiscUpdate",
                          delete |-> "MiscDeletion"] ]

\* Shape of a transition with at least one side present.
ShapeOf(l) ==
    IF l.old = ZeroRev THEN "create"
    ELSE IF l.new = ZeroRev THEN "delete"
    ELSE "update"

\* refname starts with "refs/<namespace>/".
HasPrefix(refname, namespace) ==
    Len(refname) > 2 /\ SubSeq(refname, 1, 2) = <<"refs", namespace>>

\* Family of a transition, from the namespace of the refname and the kind of
\* the target object (new if present, else old).
FamilyOf(l) ==
    LET target == IF l.new # ZeroRev THEN l.new ELSE l.old
        isCommit == target \in Commits
        isTag == target = TagObj
    IN  CASE HasPrefix(l.refname, "tags") /\ isCommit -> "LightweightTag"
          [] HasPrefix(l.refname, "tags") /\ isTag -> "AnnotatedTag"
          [] HasPrefix(l.refname, "heads") /\ isCommit -> "Branch"
          [] OTHER -> "Misc"

ShapeCode(shape) ==
    CASE shape = "create" -> CREATE
      [] shape = "update" -> UPDATE
      [] shape = "delete" -> DELETE

\* C10: every line with old or new present is classified as exactly one
\* change, whose kind is given by the namespace of the refname, the object
\* kind of the target and the shape of the transition, and whose
\* create/update/delete variant matches the presence of old and new.
C10_Classification ==
    /\ pc = "read" => Len(changes) = cur - 1
    /\ pc \notin {"config", "read", "crashed", "fatal"} => Len(changes) = Len(stdin)
    /\ \A k \in DOMAIN changes :
           (stdin[k].old # ZeroRev \/ stdin[k].new # ZeroRev) =>
               /\ changes[k].cls = ClassOf[FamilyOf(stdin[k])][ShapeOf(stdin[k])]
               /\ changes[k].change_type = ShapeCode(ShapeOf(stdin[k]))
               /\ changes[k].refname = stdin[k].refname

\* A deleted ref under refs/heads/ whose old object is not a commit was
\* classified as a Misc deletion.
C10_Witness ==
    /\ Len(changes) = 1
    /\ HasPrefix(stdin[1].refname, "heads")
    /\ stdin[1].new = ZeroRev
    /\ stdin[1].old = BlobObj
    /\ changes[1].cls = "MiscDeletion"

\* A well-formed line whose old and new are both the all-zero revision.
BothAbsent(l) == l.items = 3 /\ l.old = ZeroRev /\ l.new = ZeroRev

\* main() stopped with an exception while it read line k.
RaisedAtLine(k) == pc = "crashed" /\ Len(changes) = k - 1 /\ Len(changes) < Len(stdin)

\* C11: a line whose old and new are both absent is classified as an
\* InvalidRefDeletion change without failing, whatever its refname, and the
\* change is prepared and emitted as one notification.
C11_InvalidRefDelete ==
    \A k \in DOMAIN stdin :
        BothAbsent(stdin[k]) =>
            /\ ~RaisedAtLine(k)
            /\ k \in DOMAIN changes => changes[k].cls = "InvalidRefDeletion"
            /\ (k \in DOMAIN changes /\ Emitted(k)) =>
                   /\ changes[k].prepared
                   /\ Len(MailsOf(k)) = 1

\* Line k has been taken by make_change(): it built a change or it raised.
Consumed(k) == k \in DOMAIN changes \/ RaisedAtLine(k)

IsTrackingLine(l) == l.items = 3 /\ HasPrefix(l.refname, "remotes")

TrackingMessage == "is a tracking branch and doesn't belong on the server"

\* C12 as stated: every line on a refname under refs/remotes/ becomes a Misc
\* change with the tracking-branch message, for any presence of old and new.
C12_AnyTransition ==
    \A k \in DOMAIN stdin :
        (IsTrackingLine(stdin[k]) /\ Consumed(k)) =>
            /\ k \in DOMAIN changes
            /\ changes[k].cls \in MiscClasses
            /\ changes[k].message = TrackingMessage

\* C12, amended: every line on a refname under refs/remotes/ with old or new
\* present becomes the Misc change of its shape with the tracking-branch
\* message, whatever the kind of the target object.
C12_TrackingBranch ==
    \A k \in DOMAIN stdin :
        (IsTrackingLine(stdin[k]) /\ ~BothAbsent(stdin[k])) =>
            /\ ~RaisedAtLine(k)
            /\ k \in DOMAIN changes =>
                   /\ changes[k].cls = ClassOf.Misc[ShapeOf(stdin[k])]
                   /\ changes[k].message = TrackingMessage

\* A ref under refs/remotes/ was moved from a commit to an annotated tag
\* object and was classified and emitted as a Misc update.
C12_Witness ==
    /\ pc = "done"
    /\ Len(changes) = 1
    /\ IsTrackingLine(stdin[1])
    /\ stdin[1].old \in Commits
    /\ stdin[1].new = TagObj
    /\ changes[1].cls = "MiscUpdate"
    /\ changes[1].message = TrackingMessage

\* A well-formed line that is not a branch creation or update.
NonBranchLine(l) ==
    /\ l.items = 3
    /\ (BothAbsent(l) \/ FamilyOf(l) # "Branch" \/ ShapeOf(l) = "delete")

\* C13: every change that is not a branch creation or update (invalid-ref
\* deletion included) emits exactly one notification, its main one, and no
\* per-commit notification.
C13_OneMainMail ==
    \A k \in DOMAIN stdin :
        NonBranchLine(stdin[k]) =>
            /\ ~RaisedAtLine(k)
            /\ (k \in DOMAIN changes /\ Emitted(k)) =>
                   /\ Len(MailsOf(k)) = 1
                   /\ MailsOf(k)[1].kind = "main"

\* main() took the fatal-error path in get_config(): it died, and not on a
\* line of standard input.
DiedOnConfig == pc = "fatal" /\ \A k \in DOMAIN stdin : stdin[k].items = 3

\* C14 as stated: after the configuration is read, main() has died exactly
\* when the mailing-list recipient is unset.
C14_OnlyRecipientFatal ==
    pc # "config" => (DiedOnConfig <=> "hooks.mailinglist" \notin config)

RequiredKeys ==
    {"hooks.mailinglist", "hooks.smtp-host", "hooks.smtp-sender", "hooks.smtp-sender-password"}

\* C14, amended: main() dies on the configuration exactly when the recipient,
\* the SMTP host, the sender or the sender password is unset, and then no
\* transition has been classified and nothing was sent; the SMTP port alone
\* may be unset.
C14_RequiredConfig ==
    pc # "config" =>
        /\ DiedOnConfig <=> ~(RequiredKeys \subseteq config)
        /\ DiedOnConfig => (changes = <<>> /\ mails = <<>>)

\* With the SMTP port unset and the other keys set, the batch was processed
\* to its end and mail was sent.
C14_Witness ==
    /\ pc = "done"
    /\ config = RequiredKeys
    /\ mails # <<>>

\* Some line of standard input has not exactly three items.
HasMalformedLine == \E k \in DOMAIN stdin : stdin[k].items # 3

\* C16: when a line of standard input is malformed, no notification is ever
\* sent and no change is ever prepared, the well-formed lines before it
\* included, because main() never gets past reading; and reading the
\* malformed line ends the invocation in the fatal state.
C16_MalformedLine ==
    /\ [](HasMalformedLine =>
             /\ mails = <<>>
             /\ \A i \in DOMAIN changes : ~changes[i].prepared
             /\ pc \in {"config", "read", "fatal", "crashed"})
    /\ [][(pc = "read" /\ cur \in DOMAIN stdin /\ stdin[cur].items # 3) =>
             (pc' = "fatal" /\ mails' = <<>> /\ changes' = changes)]_vars

\* main() died on a malformed line that came after a classified line.
C16_Witness ==
    /\ pc = "fatal"
    /\ cur \in DOMAIN stdin
    /\ stdin[cur].items # 3
    /\ Len(changes) = cur - 1
    /\ Len(changes) > 0
    /\ mails = <<>>

\* A prepared branch update that neither added nor removed a commit.
EmptyUpdate(i) ==
    /\ changes[i].cls = "BranchUpdate"
    /\ changes[i].prepared
    /\ changes[i].added_commits = <<>>
    /\ changes[i].removed_commits = <<>>

\* C17: a prepared branch update that needs a cover mail and removed nothing
\* has added at least one commit (so the subject can read the last added
\* commit); an update that added nothing and removed nothing needs no cover
\* mail, never raises while its mails are sent, and emits no mail at all.
C17_CoverHasAdded ==
    \A i \in DOMAIN changes :
        (changes[i].cls = "BranchUpdate" /\ changes[i].prepared) =>
            /\ (changes[i].needs_cover_email /\ changes[i].removed_commits = <<>>)
                   => changes[i].added_commits # <<>>
            /\ EmptyUpdate(i) =>
                   /\ ~changes[i].needs_cover_email
                   /\ ~SubjectRaises(changes[i]) \/ ~get_needs_main_email(changes[i])
                   /\ ~(pc = "crashed" /\ cur = i)
                   /\ MailsOf(i) = <<>>

\* An update that added and removed nothing has been through send_emails()
\* with no mail, and a fast-forward update with a cover mail has sent it.
C17_Witness ==
    /\ \E i \in DOMAIN changes : EmptyUpdate(i) /\ Emitted(i) /\ MailsOf(i) = <<>>
    /\ \E j \in DOMAIN changes :
           /\ changes[j].cls = "BranchUpdate"
           /\ Emitted(j)
           /\ changes[j].needs_cover_email
           /\ changes[j].removed_commits = <<>>
           /\ Len(MainMailsOf(j)) = 1

\* s is an initial part of t.
IsPrefix(s, t) == Len(s) <= Len(t) /\ SubSeq(t, 1, Len(s)) = s

\* C15: when a query or a dispatch fails while change cur is prepared or
\* emitted, no later change is prepared or has a mail, change cur is not in
\* processed_changes, the mails of the earlier changes are all there and
\* those of cur sent before the failure stay; a change is in
\* processed_changes only with all its mails sent; after the failure nothing
\* changes any more (no retry), and no step ever takes a sent mail back.
C15_FailureAborts ==
    /\ [](pc = "failed" =>
             /\ cur \in DOMAIN changes
             /\ Len(changes) = Len(stdin)
             /\ changes[cur].refname \notin DOMAIN processed_changes
             /\ IsPrefix(MailsOf(cur), EmittedMails(cur))
             /\ \A j \in DOMAIN changes :
                    /\ j > cur => (~changes[j].prepared /\ MailsOf(j) = <<>>)
                    /\ j < cur => /\ changes[j].prepared
                                  /\ MailsOf(j) = EmittedMails(j)
                                  /\ changes[j].refname \in DOMAIN processed_changes)
    /\ [](\A i \in DOMAIN changes :
             Emitted(i) => (changes[i].prepared /\ MailsOf(i) = EmittedMails(i)))
    /\ [][pc # "failed" /\ IsPrefix(mails, mails')]_vars

\* The first of two changes failed after some but not all of its mails.
C15_Witness ==
    /\ pc = "failed"
    /\ cur = 1
    /\ Len(changes) = 2
    /\ MailsOf(1) # <<>>
    /\ MailsOf(1) # EmittedMails(1)
    /\ ~changes[2].prepared

====
